---------------------------- MODULE Spec2Model ----------------------------
(***************************************************************************)
(* A model of splinefit/bspline.py: knot-vector builders, span location,   *)
(* the Cox-de Boor basis recurrence, curve-point evaluation, the           *)
(* parameterization maps, the progressive-refinement driver `smoothing`,   *)
(* the Curve / Surface entities, the clamping of uvinv and the             *)
(* least-squares fit lsq / lsq2 with its derivative matrix.                *)
(*                                                                         *)
(* Numbers.  Knots and parameters of the evaluation model are integers in  *)
(* grid steps; one grid step stands for 1e-8, numpy.isclose's absolute     *)
(* tolerance, so that the tolerance comparisons of basisfuns are modelled  *)
(* as the comparisons they are and not as equalities.  Basis values are    *)
(* exact rationals [n |-> numerator, d |-> denominator], d > 0, reduced.   *)
(* Python sequences are TLA+ sequences read through PyAt, which shifts the *)
(* 0-based index and wraps a negative index the way Python does.           *)
(***************************************************************************)
EXTENDS Integers, Sequences, FiniteSets, TLC

VARIABLES
    fn,        \* pure-function calls: the function under call
    args,      \* ... its arguments
    ret,       \* ... its result ("pending" before the call has run)
    sm_pc,     \* smoothing: control position
    sm_in,     \* smoothing: the arguments sm, mmax, p
    sm_m,      \* smoothing: local m (interior-knot counter)
    sm_it,     \* smoothing: local it
    sm_res,    \* smoothing: local res
    sm_last,   \* smoothing: locals Px, Py, U as bound by the last fit (unbound before)
    sm_fits,   \* smoothing: history of the fits performed, <<[m, res]>>
    sm_out,    \* smoothing: what the call ended with
    heap,      \* entities: array storage, id -> sequence of values
    ent,       \* entities: the Curve / Surface object (its attributes)
    ent_call   \* entities: the last method call and its outcome

vars == <<fn, args, ret, sm_pc, sm_in, sm_m, sm_it, sm_res, sm_last, sm_fits,
          sm_out, heap, ent, ent_call>>

pureVars == <<fn, args, ret>>
smVars == <<sm_pc, sm_in, sm_m, sm_it, sm_res, sm_last, sm_fits, sm_out>>
entVars == <<heap, ent, ent_call>>

-----------------------------------------------------------------------------
(* Bounds of the model *)

MaxDeg == 2         \* degrees p range over 0..MaxDeg
MaxKnot == 4        \* knot and parameter values range over 0..MaxKnot grid steps
MaxInterior == 2    \* at most this many interior knots

-----------------------------------------------------------------------------
(* Arithmetic helpers *)

Abs(x) == IF x < 0 THEN -x ELSE x

Min2(x, y) == IF x <= y THEN x ELSE y

Max2(x, y) == IF x >= y THEN x ELSE y

RECURSIVE Gcd(_, _)
Gcd(x, y) == IF y = 0 THEN x ELSE Gcd(y, x % y)

\* The rational n/d (d # 0) in lowest terms with a positive denominator.
Frac(n, d) ==
    LET g == Gcd(Abs(n), Abs(d))
        s == IF d < 0 THEN -1 ELSE 1
    IN  [n |-> s * (n \div g), d |-> s * (d \div g)]

FInt(k) == [n |-> k, d |-> 1]

\* Sums and products cancel common factors before they multiply, which keeps
\* the intermediate integers as small as the result allows.
FAdd(x, y) ==
    LET g == Gcd(x.d, y.d)
    IN  Frac(x.n * (y.d \div g) + y.n * (x.d \div g), (x.d \div g) * y.d)

FSub(x, y) ==
    LET g == Gcd(x.d, y.d)
    IN  Frac(x.n * (y.d \div g) - y.n * (x.d \div g), (x.d \div g) * y.d)

FMul(x, y) ==
    LET g1 == Gcd(Abs(x.n), y.d)
        g2 == Gcd(Abs(y.n), x.d)
    IN  Frac((x.n \div g1) * (y.n \div g2), (x.d \div g2) * (y.d \div g1))

\* x / y for y # 0
FDiv(x, y) == Frac(x.n * y.d, x.d * y.n)

FLeq(x, y) == x.n * y.d <= y.n * x.d

FLt(x, y) == x.n * y.d < y.n * x.d

RECURSIVE FSum(_, _)
FSum(f, S) ==
    IF S = {} THEN FInt(0)
    ELSE LET k == CHOOSE k \in S : TRUE IN FAdd(f[k], FSum(f, S \ {k}))

\* Python's seq[i]: 0-based, a negative index counts from the end.
PyAt(s, i) == IF i >= 0 THEN s[i + 1] ELSE s[Len(s) + i + 1]

\* Python's (v,)*k
Rep(v, k) == [i \in 1..k |-> v]

-----------------------------------------------------------------------------
(* numpy.isclose(a, b) with its default tolerances:                        *)
(*     |a - b| <= atol + rtol * |b|,  atol = 1e-8, rtol = 1e-5,            *)
(* on values measured in grid steps of 1e-8.                               *)

AtolSteps == 1          \* atol = 1e-8 = one grid step
RtolInv == 100000       \* 1 / rtol

isclose(a, b) == Abs(a - b) * RtolInv <= AtolSteps * RtolInv + Abs(b)

-----------------------------------------------------------------------------
(* findspan, bspline.py 156-171 (the binary search after `return n` is     *)
(* unreachable).                                                           *)

\* findspan's scan with the upper end of the span taken as inclusive.
RECURSIVE findspan_scan_inclusive(_, _, _, _, _)
findspan_scan_inclusive(i, hi, n, u, U) ==
    IF i >= hi THEN n
    ELSE IF u >= PyAt(U, i) /\ u <= PyAt(U, i + 1) THEN i
    ELSE findspan_scan_inclusive(i + 1, hi, n, u, U)

RECURSIVE findspan_scan(_, _, _, _, _)
findspan_scan(i, hi, n, u, U) ==
    IF i >= hi THEN n
    ELSE IF u >= PyAt(U, i) /\ u < PyAt(U, i + 1) THEN i
    ELSE findspan_scan(i + 1, hi, n, u, U)

findspan(n, p, u, U) ==
    IF u = PyAt(U, n + 1) THEN n
    ELSE findspan_scan(p, p + n, n, u, U)

-----------------------------------------------------------------------------
(* basisfuns, bspline.py 184-210.  left[k] and right[k] are written at     *)
(* step j = k and read only at steps j >= k, so they are functions of k.   *)

bf_left(k, i, u, U) == u - PyAt(U, i + 1 - k)

bf_right(k, i, u, U) == PyAt(U, i + k) - u

\* The inner loop with `N[r] = right[r+1]*temp`, the carry `saved` dropped.
RECURSIVE bf_inner_nocarry(_, _, _, _, _, _, _)
bf_inner_nocarry(N, saved, j, r, i, u, U) ==
    IF r >= j THEN [N |-> N, saved |-> saved, zd |-> FALSE]
    ELSE LET denom == bf_right(r + 1, i, u, U) + bf_left(j - r, i, u, U) IN
         IF isclose(denom, 0)
         THEN [N |-> [N EXCEPT ![r] = FInt(0)], saved |-> saved, zd |-> FALSE]
         ELSE LET temp == FDiv(N[r], FInt(denom)) IN
              bf_inner_nocarry([N EXCEPT ![r] = FMul(FInt(bf_right(r + 1, i, u, U)), temp)],
                               FMul(FInt(bf_left(j - r, i, u, U)), temp),
                               j, r + 1, i, u, U)

\* The inner loop `for r in range(j)` from r on; gives N and saved at its end,
\* and zd: whether a division by a zero denominator was performed.
RECURSIVE bf_inner(_, _, _, _, _, _, _)
bf_inner(N, saved, j, r, i, u, U) ==
    IF r >= j THEN [N |-> N, saved |-> saved, zd |-> FALSE]
    ELSE LET denom == bf_right(r + 1, i, u, U) + bf_left(j - r, i, u, U) IN
         IF isclose(denom, 0)
         THEN [N |-> [N EXCEPT ![r] = FInt(0)], saved |-> saved, zd |-> FALSE]  \* break
         ELSE LET temp == FDiv(N[r], FInt(denom))
                  rest == bf_inner([N EXCEPT ![r] = FAdd(saved,
                                       FMul(FInt(bf_right(r + 1, i, u, U)), temp))],
                                   FMul(FInt(bf_left(j - r, i, u, U)), temp),
                                   j, r + 1, i, u, U)
              IN  [rest EXCEPT !.zd = @ \/ denom = 0]

\* The outer loop `for j in range(1, p+1)` from j on.
RECURSIVE bf_outer(_, _, _, _, _, _)
bf_outer(N, j, p, i, u, U) ==
    IF j > p THEN [N |-> N, zd |-> FALSE]
    ELSE LET s == bf_inner(N, FInt(0), j, 0, i, u, U)
             rest == bf_outer([s.N EXCEPT ![j] = s.saved], j + 1, p, i, u, U)
         IN  [rest EXCEPT !.zd = @ \/ s.zd]

\* basisfuns with the division-by-zero flag of its run.
basisfuns_run(i, u, p, U) ==
    IF isclose(u, PyAt(U, 0))
    THEN [N |-> [k \in 0..p |-> IF k = 0 THEN FInt(1) ELSE FInt(0)], zd |-> FALSE]
    ELSE IF isclose(u, PyAt(U, -1))
    THEN [N |-> [k \in 0..p |-> IF k = p THEN FInt(1) ELSE FInt(0)], zd |-> FALSE]
    ELSE bf_outer([k \in 0..p |-> IF k = 0 THEN FInt(1) ELSE FInt(0)], 1, p, i, u, U)

basisfuns(i, u, p, U) == basisfuns_run(i, u, p, U).N

-----------------------------------------------------------------------------
(* curvepoint, bspline.py 213-222 *)

RECURSIVE cp_sum(_, _, _, _, _, _)
cp_sum(C, i, p, N, P, span) ==
    IF i > p THEN C
    ELSE cp_sum(FAdd(C, FMul(N[i], FInt(PyAt(P, span - p + i)))), i + 1, p, N, P, span)

curvepoint(p, U, P, u) ==
    LET n == Len(P) - p
        span == findspan(n, p, u, U)
        N == basisfuns(span, u, p, U)
    IN  IF PyAt(U, -1) = u THEN FInt(PyAt(P, -1))
        ELSE cp_sum(FInt(0), 0, p, N, P, span)

-----------------------------------------------------------------------------
(* Calls of the pure functions: the call (fn, args) is drawn in the        *)
(* initial state, the action of that function runs it and stores what it   *)
(* returned.                                                               *)

Pending == [st |-> "pending"]

Done(v) == [st |-> "done", val |-> v]

Returned == ret.st = "done"

\* The non-decreasing sequences of length k over lo..hi.
SortedSeqs(lo, hi, k) ==
    {t \in [1..k -> lo..hi] : \A i \in 1..(k - 1) : t[i] <= t[i + 1]}

\* The clamped non-decreasing knot vectors of degree p on the grid.
ClampedKnots(p) ==
    UNION {UNION {UNION {{Rep(a, p + 1) \o t \o Rep(b, p + 1) : t \in SortedSeqs(a, b, k)} :
                         k \in 0..MaxInterior} :
                  b \in (a + 1)..MaxKnot} :
           a \in 0..MaxKnot}

\* Control-point sequences of length k: the unit vectors and the ramp 1, 2, .., k.
ControlPoints(k) ==
    {[i \in 1..k |-> IF i = j THEN 1 ELSE 0] : j \in 1..k} \cup {[i \in 1..k |-> i]}

\* findspan as lsq (444-453), lsq2surf and surfacepoint call it: n = len(U) - p - 2,
\* for a parameter u in [U[0], U[-1]].
FindspanCalls(maxdeg) ==
    UNION {UNION {{[n |-> Len(U) - p - 2, p |-> p, u |-> u, U |-> U] :
                      u \in U[1]..U[Len(U)]} :
                  U \in ClampedKnots(p)} :
           p \in 0..maxdeg}

\* basisfuns at the span lsq (453-454) gives it, and at the span curvepoint
\* (215-217) gives it.
BasisfunsCalls(maxdeg) ==
    {[i |-> findspan(c.n, c.p, c.u, c.U), u |-> c.u, p |-> c.p, U |-> c.U] :
        c \in FindspanCalls(maxdeg)}
    \cup
    {[i |-> findspan(c.n + 1 - c.p, c.p, c.u, c.U), u |-> c.u, p |-> c.p, U |-> c.U] :
        c \in {d \in FindspanCalls(maxdeg) : d.p >= 1}}

\* curvepoint on a degree p >= 1 with len(U) = len(P) + p + 1.
CurvepointCalls(maxdeg) ==
    UNION {{[p |-> c.p, U |-> c.U, P |-> P, u |-> c.u] :
               P \in ControlPoints(Len(c.U) - c.p - 1)} :
           c \in {d \in FindspanCalls(maxdeg) : d.p >= 1}}

SmIdle ==
    /\ sm_pc = "idle" /\ sm_in = <<>> /\ sm_m = 0 /\ sm_it = 0 /\ sm_res = 0
    /\ sm_last = [bound |-> FALSE] /\ sm_fits = <<>> /\ sm_out = [kind |-> "none"]

EntIdle == heap = <<>> /\ ent = [kind |-> "none"] /\ ent_call = [name |-> "none"]

PureIdle == fn = "none" /\ args = <<>> /\ ret = Pending

InitEval ==
    /\ \/ fn = "findspan" /\ args \in FindspanCalls(MaxDeg)
       \/ fn = "basisfuns" /\ args \in BasisfunsCalls(MaxDeg)
       \/ fn = "curvepoint" /\ args \in CurvepointCalls(MaxDeg)
    /\ ret = Pending
    /\ SmIdle /\ EntIdle

CallFindspan ==
    /\ fn = "findspan" /\ ret = Pending
    /\ ret' = Done(findspan(args.n, args.p, args.u, args.U))
    /\ UNCHANGED <<fn, args, smVars, entVars>>

CallBasisfuns ==
    /\ fn = "basisfuns" /\ ret = Pending
    /\ ret' = Done(basisfuns(args.i, args.u, args.p, args.U))
    /\ UNCHANGED <<fn, args, smVars, entVars>>

CallCurvepoint ==
    /\ fn = "curvepoint" /\ ret = Pending
    /\ ret' = Done(curvepoint(args.p, args.U, args.P, args.u))
    /\ UNCHANGED <<fn, args, smVars, entVars>>

NextEval == CallFindspan \/ CallBasisfuns \/ CallCurvepoint

SpecEval == InitEval /\ [][NextEval]_vars

-----------------------------------------------------------------------------
(* Knot-vector builders, bspline.py 336-400.  Knots are exact rationals.   *)

MaxLo == 1          \* the left boundary knot a ranges over 0..MaxLo
MaxSamples == 3     \* at most this many samples s

FSeq(t) == [i \in 1..Len(t) |-> FInt(t[i])]

\* Python's s[lo:hi] for lo >= 0, and Python's negative stop index.
PySlice(s, lo, hi) ==
    LET h == IF hi < 0 THEN Max2(Len(s) + hi, 0) ELSE Min2(hi, Len(s))
    IN  IF lo >= h THEN <<>> ELSE [i \in 1..(h - lo) |-> s[lo + i]]

RECURSIVE SeqSum(_)
SeqSum(s) == IF s = <<>> THEN 0 ELSE s[1] + SeqSum(Tail(s))

\* numpy.linspace(a, b, num)[k], num >= 2
linspace(a, b, num, k) == FAdd(FInt(a), Frac(k * (b - a), num - 1))

\* uniformknots, 336-351
uniformknots(m, p, a, b) ==
    Rep(FInt(a), p + 1) \o [k \in 1..m |-> linspace(a, b, m + 2, k)] \o Rep(FInt(b), p + 1)

\* customknots, 368-372
customknots(t, p, a, b) == Rep(FInt(a), p + 1) \o FSeq(t) \o Rep(FInt(b), p + 1)

\* numpy.sort of a sequence of rationals
RECURSIVE FSort(_)
FSort(t) ==
    IF t = <<>> THEN <<>>
    ELSE LET k == CHOOSE k \in 1..Len(t) : \A j \in 1..Len(t) : FLeq(t[k], t[j])
         IN  <<t[k]>> \o FSort([j \in 1..(Len(t) - 1) |-> IF j < k THEN t[j] ELSE t[j + 1]])

\* kmeansknots, 376-387; `centres` is what scipy's kmeans(s, m)[0] returned.
kmeansknots(centres, p, a, b) ==
    Rep(FInt(a), p + 1) \o FSort(centres) \o Rep(FInt(b), p + 1)

\* averageknots, 389-400
averageknots(s, m, p, a, b) ==
    Rep(FInt(a), p + 1)
      \o [i \in 1..(m + 2) |-> Frac(SeqSum(PySlice(s, i - 1, i - 1 + p - 1)), p)]
      \o Rep(FInt(b), p + 1)

\* What a k-means clustering of the sorted samples s into m clusters can
\* return: the means of m contiguous non-empty runs that partition s (the
\* nearest-centre cells of points on a line), in any order.
KMeansCentres(s, m) ==
    LET L == Len(s)
        Cuts == {c \in [0..m -> 0..L] :
                    c[0] = 0 /\ c[m] = L /\ \A i \in 1..m : c[i - 1] < c[i]}
        Perms == {f \in [1..m -> 1..m] : \A i, j \in 1..m : f[i] = f[j] => i = j}
    IN  {[i \in 1..m |-> Frac(SeqSum(PySlice(s, c[f[i] - 1], c[f[i]])),
                               c[f[i]] - c[f[i] - 1])] :
            c \in Cuts, f \in Perms}

\* The domains a < b.
Domains == {d \in (0..MaxLo) \X (1..MaxKnot) : d[1] < d[2]}

\* Sorted samples within [a, b], of any length up to MaxSamples.
Samples(a, b) == UNION {SortedSeqs(a, b, k) : k \in 0..MaxSamples}

UniformknotsCalls(D) ==
    {[m |-> m, p |-> p, a |-> d[1], b |-> d[2]] :
        m \in 0..MaxInterior, p \in 0..MaxDeg, d \in D}

CustomknotsCalls(D) ==
    UNION {{[t |-> t, p |-> p, a |-> d[1], b |-> d[2]] :
               t \in UNION {SortedSeqs(d[1], d[2], k) : k \in 0..MaxInterior},
               p \in 0..MaxDeg} :
           d \in D}

KmeansknotsCalls(D) ==
    UNION {UNION {UNION {{[s |-> s, m |-> m, p |-> p, a |-> d[1], b |-> d[2],
                           centres |-> c] :
                             c \in KMeansCentres(s, m), p \in 0..MaxDeg} :
                         m \in 1..Min2(MaxInterior, Len(s))} :
                  s \in Samples(d[1], d[2])} :
           d \in D}

AverageknotsCalls(D) ==
    UNION {{[s |-> s, m |-> m, p |-> p, a |-> d[1], b |-> d[2]] :
               s \in Samples(d[1], d[2]), m \in 0..MaxInterior, p \in 1..MaxDeg} :
           d \in D}

InitKnots ==
    /\ \/ fn = "uniformknots" /\ args \in UniformknotsCalls(Domains)
       \/ fn = "customknots" /\ args \in CustomknotsCalls(Domains)
       \/ fn = "kmeansknots" /\ args \in KmeansknotsCalls(Domains)
       \/ fn = "averageknots" /\ args \in AverageknotsCalls(Domains)
    /\ ret = Pending
    /\ SmIdle /\ EntIdle

CallUniformknots ==
    /\ fn = "uniformknots" /\ ret = Pending
    /\ ret' = Done(uniformknots(args.m, args.p, args.a, args.b))
    /\ UNCHANGED <<fn, args, smVars, entVars>>

CallCustomknots ==
    /\ fn = "customknots" /\ ret = Pending
    /\ ret' = Done(customknots(args.t, args.p, args.a, args.b))
    /\ UNCHANGED <<fn, args, smVars, entVars>>

CallKmeansknots ==
    /\ fn = "kmeansknots" /\ ret = Pending
    /\ ret' = Done(kmeansknots(args.centres, args.p, args.a, args.b))
    /\ UNCHANGED <<fn, args, smVars, entVars>>

CallAverageknots ==
    /\ fn = "averageknots" /\ ret = Pending
    /\ ret' = Done(averageknots(args.s, args.m, args.p, args.a, args.b))
    /\ UNCHANGED <<fn, args, smVars, entVars>>

NextKnots == CallUniformknots \/ CallCustomknots \/ CallKmeansknots \/ CallAverageknots

SpecKnots == InitKnots /\ [][NextKnots]_vars

-----------------------------------------------------------------------------
(* Parameterization maps, bspline.py 568-626, and the grid spacing of      *)
(* lsq2surf, 543-559.  A float division by zero gives a non-finite value,  *)
(* written n/0: 0/0 is nan, 1/0 and -1/0 are the infinities.               *)

MaxPts == 3         \* at most this many sample points
MaxStep == 3        \* consecutive points differ by at most this much per axis

StepsPerUnit == 100000000    \* the number 1.0 in grid steps of 1e-8

Finite(x) == x.d # 0

NaN == [n |-> 0, d |-> 0]

Sign(k) == IF k > 0 THEN 1 ELSE IF k < 0 THEN -1 ELSE 0

\* numpy's x / y on floats
NDiv(x, y) ==
    IF ~Finite(x) \/ ~Finite(y) THEN NaN
    ELSE IF y.n = 0 THEN [n |-> Sign(x.n), d |-> 0]
    ELSE FDiv(x, y)

NAdd(x, y) == IF Finite(x) /\ Finite(y) THEN FAdd(x, y) ELSE NaN

NSub(x, y) == IF Finite(x) /\ Finite(y) THEN FSub(x, y) ELSE NaN

NMul(x, y) == IF Finite(x) /\ Finite(y) THEN FMul(x, y) ELSE NaN

IsSquare(k) == \E r \in 0..k : r * r = k

\* numpy.sqrt on a perfect square
Sqrt(k) == CHOOSE r \in 0..k : r * r = k

\* x[1:] - x[0:-1]
Diffs(x) == [i \in 1..(Len(x) - 1) |-> x[i + 1] - x[i]]

\* Floating point.  chords and centripetal compute in binary floating
\* point, rounding each result to the nearest representable number, ties to
\* the even significand.  numpy's float64 keeps 53 bits of significand; the
\* model keeps MantBits.
MantBits == 5

RECURSIVE Pow2(_)
Pow2(k) == IF k = 0 THEN 1 ELSE 2 * Pow2(k - 1)

\* 2^e as a rational, e of either sign
Pow2F(e) == IF e >= 0 THEN FInt(Pow2(e)) ELSE Frac(1, Pow2(-e))

\* num/den scaled by a power of base into [lo, hi): the scaled fraction and
\* the exponent e with num/den = (scaled) * base^e.
RECURSIVE Scale(_, _, _, _, _, _)
Scale(num, den, e, base, lo, hi) ==
    IF num >= hi * den THEN Scale(num, base * den, e + 1, base, lo, hi)
    ELSE IF num < lo * den THEN Scale(base * num, den, e - 1, base, lo, hi)
    ELSE [num |-> num, den |-> den, e |-> e]

\* The float nearest to the real number x.
Fl(x) ==
    IF ~Finite(x) \/ x.n = 0 THEN x
    ELSE LET sc == Scale(Abs(x.n), x.d, 0, 2, Pow2(MantBits - 1), Pow2(MantBits))
             m0 == sc.num \div sc.den
             r2 == 2 * (sc.num % sc.den)
             m  == IF r2 > sc.den \/ (r2 = sc.den /\ m0 % 2 = 1) THEN m0 + 1 ELSE m0
         IN  FMul(FInt(Sign(x.n) * m), Pow2F(sc.e))

\* numpy.sqrt of a float x >= 0: the float nearest to the square root.
FlSqrt(x) ==
    IF ~Finite(x) \/ x.n = 0 THEN x
    ELSE LET sc == Scale(x.n, x.d, 0, 4, Pow2(2 * (MantBits - 1)), Pow2(2 * MantBits))
             m0 == CHOOSE m \in Pow2(MantBits - 1)..(Pow2(MantBits) - 1) :
                      m * m * sc.den <= sc.num /\ sc.num < (m + 1) * (m + 1) * sc.den
             h  == (2 * m0 + 1) * (2 * m0 + 1) * sc.den
             m  == IF 4 * sc.num > h \/ (4 * sc.num = h /\ m0 % 2 = 1) THEN m0 + 1 ELSE m0
         IN  FMul(FInt(m), Pow2F(sc.e))

\* The cumulative sums d[0] = 0, d[i+1] = d[i] + inc[i] (589, 608).
RECURSIVE Cumul(_, _)
Cumul(inc, k) == IF k = 0 THEN FInt(0) ELSE Fl(NAdd(Cumul(inc, k - 1), inc[k]))

SeqMin(d) == CHOOSE v \in {d[i] : i \in 1..Len(d)} : \A i \in 1..Len(d) : v <= d[i]

SeqMax(d) == CHOOSE v \in {d[i] : i \in 1..Len(d)} : \A i \in 1..Len(d) : v >= d[i]

\* chords, 568-592; z is [some |-> FALSE] for None.
chords(x, y, z, a, b) ==
    LET dx == Diffs(x)
        dy == Diffs(y)
        dz == IF z.some THEN Diffs(z.v) ELSE [i \in 1..(Len(x) - 1) |-> 0]
        dists == [i \in 1..Len(dx) |-> Sqrt(dx[i] * dx[i] + dy[i] * dy[i] + dz[i] * dz[i])]
        d == [k \in 1..(Len(dists) + 1) |-> Cumul(FSeq(dists), k - 1).n]
        lo == SeqMin(d)
        hi == SeqMax(d)
    IN  [val |-> [k \in 1..Len(d) |->
                     Fl(NAdd(Fl(NDiv(Fl(FInt((b - a) * (d[k] - lo))), FInt(hi - lo))),
                             FInt(a)))],
         zerodiv |-> hi - lo = 0,
         raised |-> "none"]

\* centripetal, 594-611
centripetal(x, y, a, b) ==
    LET dx == Diffs(x)
        dy == Diffs(y)
        dists == [i \in 1..Len(dx) |-> Sqrt(dx[i] * dx[i] + dy[i] * dy[i])]
        root == [i \in 1..Len(dists) |-> FlSqrt(FInt(dists[i]))]
        dl == Cumul(root, Len(root))
        inc == [i \in 1..Len(dists) |-> Fl(NDiv(root[i], dl))]
        d == [k \in 1..Len(x) |-> Cumul(inc, k - 1)]
    IN  [val |-> [k \in 1..Len(x) |-> Fl(NAdd(Fl(NMul(FInt(b - a), d[k])), FInt(a)))],
         zerodiv |-> Len(dists) > 0 /\ dl = FInt(0),
         raised |-> "none"]

\* xmap, 614-626; x is in grid steps, so the substituted denominator 1 is
\* StepsPerUnit steps.
xmap(x, a, b) ==
    LET lo == SeqMin(x)
        hi == SeqMax(x)
        denom == IF isclose(hi - lo, 0) THEN StepsPerUnit ELSE hi - lo
    IN  [val |-> [k \in 1..Len(x) |->
                     NAdd(NMul(FInt(b - a), NDiv(FInt(x[k] - lo), FInt(denom))), FInt(a))],
         zerodiv |-> denom = 0,
         raised |-> "none"]

\* lsq2surf, 499-566: the sizes, and the grid spacing h = 1.0 / (nu - 1) of
\* line 558, a division of Python floats, which raises on a zero divisor.
\* The control grid is whatever numpy's SVD solve gives; its shape is kept.
lsq2surf(U, V, pu, pv) ==
    LET mu == Len(U) - 1
        mv == Len(V) - 1
        nu == mu - pu - 1
        nv == mv - pv - 1
    IN  IF nu - 1 = 0
        THEN [val |-> <<>>, zerodiv |-> TRUE, raised |-> "ZeroDivisionError"]
        ELSE [val |-> <<mv - pv, mu - pu>>, zerodiv |-> FALSE, raised |-> "none"]

\* basisfuns as a call that reports its divisions.
basisfuns_call(i, u, p, U) ==
    LET r == basisfuns_run(i, u, p, U)
    IN  [val |-> r.N, zerodiv |-> r.zd, raised |-> "none"]

\* The moves between consecutive points: in the plane, of integer length, or
\* along the z axis.
Moves(needSquareLength) ==
    {v \in (-MaxStep..MaxStep) \X (-MaxStep..MaxStep) \X (-MaxStep..MaxStep) :
        /\ v[3] = 0 \/ (v[1] = 0 /\ v[2] = 0)
        /\ IsSquare(v[1] * v[1] + v[2] * v[2] + v[3] * v[3])
        /\ needSquareLength => IsSquare(Sqrt(v[1] * v[1] + v[2] * v[2] + v[3] * v[3]))}

\* The coordinate sequence of axis c for a start value and a sequence of moves.
RECURSIVE Walk(_, _, _, _)
Walk(start, mv, c, k) == IF k = 0 THEN start ELSE Walk(start, mv, c, k - 1) + mv[k][c]

Coords(start, mv, c) == [k \in 1..(Len(mv) + 1) |-> Walk(start, mv, c, k - 1)]

MoveSeqs(M) == UNION {[1..k -> M] : k \in 0..(MaxPts - 1)}

ChordsCalls(D) ==
    {[x |-> Coords(x0, mv, 1), y |-> Coords(0, mv, 2),
      z |-> [some |-> TRUE, v |-> Coords(0, mv, 3)], a |-> d[1], b |-> d[2]] :
        x0 \in 0..1, mv \in MoveSeqs(Moves(FALSE)), d \in D}
    \cup
    {[x |-> Coords(x0, mv, 1), y |-> Coords(0, mv, 2),
      z |-> [some |-> FALSE], a |-> d[1], b |-> d[2]] :
        x0 \in 0..1, mv \in MoveSeqs({v \in Moves(FALSE) : v[3] = 0}), d \in D}

CentripetalCalls(D) ==
    {[x |-> Coords(x0, mv, 1), y |-> Coords(0, mv, 2), a |-> d[1], b |-> d[2]] :
        x0 \in 0..1, mv \in MoveSeqs({v \in Moves(FALSE) : v[3] = 0}), d \in D}

XmapCalls(D) ==
    {[x |-> x, a |-> d[1], b |-> d[2]] :
        x \in UNION {[1..k -> 0..MaxStep] : k \in 1..MaxPts}, d \in D}

\* Knot vectors over [0, MaxKnot] for the two directions of a surface fit.
SurfKnots(p) ==
    UNION {{Rep(0, p + 1) \o t \o Rep(MaxKnot, p + 1) : t \in SortedSeqs(0, MaxKnot, k)} :
           k \in 0..MaxInterior}

Lsq2surfCalls(maxdeg) ==
    UNION {{[U |-> U, V |-> V, pu |-> q[1], pv |-> q[2]] :
               U \in SurfKnots(q[1]), V \in SurfKnots(q[2])} :
           q \in (1..maxdeg) \X (1..maxdeg)}

InitDegen ==
    /\ \/ fn = "chords" /\ args \in ChordsCalls(Domains)
       \/ fn = "centripetal" /\ args \in CentripetalCalls(Domains)
       \/ fn = "xmap" /\ args \in XmapCalls(Domains)
       \/ fn = "basisfuns" /\ args \in BasisfunsCalls(MaxDeg)
       \/ fn = "lsq2surf" /\ args \in Lsq2surfCalls(MaxDeg)
    /\ ret = Pending
    /\ SmIdle /\ EntIdle

CallChords ==
    /\ fn = "chords" /\ ret = Pending
    /\ ret' = Done(chords(args.x, args.y, args.z, args.a, args.b))
    /\ UNCHANGED <<fn, args, smVars, entVars>>

CallCentripetal ==
    /\ fn = "centripetal" /\ ret = Pending
    /\ ret' = Done(centripetal(args.x, args.y, args.a, args.b))
    /\ UNCHANGED <<fn, args, smVars, entVars>>

CallXmap ==
    /\ fn = "xmap" /\ ret = Pending
    /\ ret' = Done(xmap(args.x, args.a, args.b))
    /\ UNCHANGED <<fn, args, smVars, entVars>>

CallBasisfunsChecked ==
    /\ fn = "basisfuns" /\ ret = Pending
    /\ ret' = Done(basisfuns_call(args.i, args.u, args.p, args.U))
    /\ UNCHANGED <<fn, args, smVars, entVars>>

CallLsq2surf ==
    /\ fn = "lsq2surf" /\ ret = Pending
    /\ ret' = Done(lsq2surf(args.U, args.V, args.pu, args.pv))
    /\ UNCHANGED <<fn, args, smVars, entVars>>

NextDegen ==
    CallChords \/ CallCentripetal \/ CallXmap \/ CallBasisfunsChecked \/ CallLsq2surf

SpecDegen == InitDegen /\ [][NextDegen]_vars

-----------------------------------------------------------------------------
(* smoothing, bspline.py 666-688, with lsq2l2, 691-703.  One action per    *)
(* pass of the while loop and one for the return.  A fit's knot vector is  *)
(* uniformknots(m, p, 0, 1) and its control-point vectors have             *)
(* len(U) - p - 1 entries (lsq, 444-448); the residual norm of a fit is    *)
(* whatever numpy's SVD solve leaves, any number >= 0.                     *)

MaxSm == 2          \* the target residual sm ranges over -1..MaxSm
MaxMmax == 7        \* the maximum knot count mmax ranges over 0..MaxMmax
MaxRes == 3         \* a fit's residual norm ranges over 0..MaxRes

\* line 680, the loop condition
sm_continue(res, sm, m, mmax) == res > sm /\ m < mmax

\* the counter stepped by one
sm_step_one(m) == 1 + m

\* line 687
sm_step(m) == 2 + m

\* lsq2l2 with knots='uniform': the knot vector and the sizes of Px, Py
lsq2l2(m, p, it, res) ==
    LET U == uniformknots(m, p, 0, 1)
    IN  [bound |-> TRUE, fit |-> it, m |-> m, U |-> U, nPx |-> Len(U) - p - 1,
         nPy |-> Len(U) - p - 1, res |-> res]

InitSmooth ==
    /\ sm_in \in [sm : -1..MaxSm, mmax : 0..MaxMmax, p : 1..MaxDeg]
    /\ sm_pc = "loop"
    /\ sm_m = 2
    /\ sm_it = 0
    /\ sm_res = sm_in.sm + 1
    /\ sm_last = [bound |-> FALSE]
    /\ sm_fits = <<>>
    /\ sm_out = [kind |-> "none"]
    /\ PureIdle /\ EntIdle

\* One pass of the loop body, 681-687.
SmoothingFit ==
    /\ sm_pc = "loop"
    /\ sm_continue(sm_res, sm_in.sm, sm_m, sm_in.mmax)
    /\ \E r \in 0..MaxRes :
          /\ sm_it' = sm_it + 1
          /\ sm_last' = lsq2l2(sm_m, sm_in.p, sm_it + 1, r)
          /\ sm_res' = r
          /\ sm_fits' = Append(sm_fits, [m |-> sm_m, res |-> r])
    /\ sm_m' = sm_step(sm_m)
    /\ UNCHANGED <<sm_pc, sm_in, sm_out, pureVars, entVars>>

\* Line 688: `return Px, Py, U`, which raises when no pass bound them.
SmoothingReturn ==
    /\ sm_pc = "loop"
    /\ ~sm_continue(sm_res, sm_in.sm, sm_m, sm_in.mmax)
    /\ IF sm_last.bound
       THEN /\ sm_pc' = "returned"
            /\ sm_out' = [kind |-> "return", fit |-> sm_last.fit, U |-> sm_last.U,
                          nPx |-> sm_last.nPx, nPy |-> sm_last.nPy]
       ELSE /\ sm_pc' = "raised"
            /\ sm_out' = [kind |-> "UnboundLocalError"]
    /\ UNCHANGED <<sm_in, sm_m, sm_it, sm_res, sm_last, sm_fits, pureVars, entVars>>

NextSmooth == SmoothingFit \/ SmoothingReturn

SpecSmooth == InitSmooth /\ [][NextSmooth]_vars

-----------------------------------------------------------------------------
(* surfacepoint and evalsurface, bspline.py 225-263; a control grid is a   *)
(* sequence of rows.                                                       *)

RECURSIVE sp_sum(_, _, _, _, _, _, _, _, _)
sp_sum(S, k, pu, pv, Nu, Nv, P, span_u, span_v) ==
    IF k >= (pu + 1) * (pv + 1) THEN S
    ELSE LET i == k \div (pv + 1)
             j == k % (pv + 1)
             Pij == PyAt(PyAt(P, span_v - pv + j), span_u - pu + i)
         IN  sp_sum(FAdd(S, FMul(FMul(Nu[i], Nv[j]), FInt(Pij))),
                    k + 1, pu, pv, Nu, Nv, P, span_u, span_v)

surfacepoint(pu, pv, U, V, P, u, v) ==
    LET nv == Len(P) - 1
        nu == Len(P[1]) - 1
        span_u == findspan(nu, pu, u, U)
        span_v == findspan(nv, pv, v, V)
        Nu == basisfuns(span_u, u, pu, U)
        Nv == basisfuns(span_v, v, pv, V)
    IN  sp_sum(FInt(0), 0, pu, pv, Nu, Nv, P, span_u, span_v)

evalsurface(pu, pv, U, V, P, u, v) ==
    [i \in 1..Len(u) |-> [j \in 1..Len(v) |-> surfacepoint(pu, pv, U, V, P, u[i], v[j])]]

-----------------------------------------------------------------------------
(* Curve and Surface, bspline.py 722-887.  Arrays live in `heap`; an       *)
(* attribute that holds an array holds the id of its storage, so that two  *)
(* attributes bound to one array object share it.  The entity is degree 1  *)
(* on the knot vector [0, 0, 2*MaxKnot, 2*MaxKnot]: two control points for *)
(* a Curve, a 2 x 2 control grid for a Surface.                            *)

MaxVal == 1         \* control-point values range over 0..MaxVal
MaxWrites == 1      \* at most this many in-place writes by the client
MaxEvalPts == 2     \* eval() is asked for 1..MaxEvalPts points per direction

EntU == <<0, 0, 2 * MaxKnot, 2 * MaxKnot>>

NormAttrs == {"Px", "Py", "Pz"}

RwAttrs == {"rwPx", "rwPy", "rwPz"}

\* The attribute of the other representation of the same axis.
Counterpart(a) ==
    CASE a = "Px" -> "rwPx" [] a = "Py" -> "rwPy" [] a = "Pz" -> "rwPz"
      [] a = "rwPx" -> "Px" [] a = "rwPy" -> "Py" [] a = "rwPz" -> "Pz"

\* Curve.__init__, 741-750, on the arrays with ids Px, Py, Pz.  The
\* real-world attributes are bound to the same array objects.
CurveInit(U, p, Px, Py, Pz) ==
    [kind |-> "Curve", U |-> U, V |-> <<>>, pu |-> p, pv |-> 0,
     Px |-> Px, Py |-> Py, Pz |-> Pz, rwPx |-> Px, rwPy |-> Py, rwPz |-> Pz,
     attrs |-> {}, X |-> <<>>, Y |-> <<>>, Z |-> <<>>, writes |-> 0]

\* Surface.__init__, 811-823
SurfaceInit(U, V, pu, pv, Px, Py, Pz) ==
    [kind |-> "Surface", U |-> U, V |-> V, pu |-> pu, pv |-> pv,
     Px |-> Px, Py |-> Py, Pz |-> Pz, rwPx |-> Px, rwPy |-> Py, rwPz |-> Pz,
     attrs |-> {}, X |-> <<>>, Y |-> <<>>, Z |-> <<>>, writes |-> 0]

\* numpy.linspace(U[0], U[-1], n) on the entity's knot vector
EvalParams(U, n) ==
    IF n = 1 THEN <<PyAt(U, 0)>>
    ELSE [k \in 1..n |-> linspace(PyAt(U, 0), PyAt(U, -1), n, k - 1).n]

\* Curve.eval, 752-767
curve_eval(h, e, npts, rw) ==
    LET u == EvalParams(e.U, npts)
        on(a) == [i \in 1..npts |-> curvepoint(e.pu, e.U, h[e[a]], u[i])]
    IN  IF rw THEN <<on("rwPx"), on("rwPy"), on("rwPz")>>
        ELSE <<on("Px"), on("Py"), on("Pz")>>

\* Surface.eval, 825-842: the entity with X, Y, Z set
surface_eval(h, e, nu, nv, rw) ==
    LET u == EvalParams(e.U, nu)
        v == EvalParams(e.V, nv)
        on(a) == evalsurface(e.pu, e.pv, e.U, e.V, h[e[a]], u, v)
    IN  [e EXCEPT !.attrs = @ \cup {"X", "Y", "Z"},
                  !.X = IF rw THEN on("rwPx") ELSE on("Px"),
                  !.Y = IF rw THEN on("rwPy") ELSE on("Py"),
                  !.Z = IF rw THEN on("rwPz") ELSE on("Pz")]

\* numpy.linalg.norm(v, ord) of a vector of rationals with integer values,
\* ord 1 or 2
VecNorm(v, ord) ==
    IF ord = 1 THEN SeqSum([k \in 1..Len(v) |-> Abs(v[k].n)])
    ELSE Sqrt(SeqSum([k \in 1..Len(v) |-> v[k].n * v[k].n]))

\* Surface.compute_distances, 867-887.  The loops run over self.misfit.shape,
\* an attribute no method assigns.
compute_distances(e, points, ord) ==
    IF "X" \notin e.attrs THEN [raised |-> "ValueError", val |-> <<>>]
    ELSE IF "misfit" \notin e.attrs THEN [raised |-> "AttributeError", val |-> <<>>]
    ELSE [raised |-> "none",
          val |-> [i \in 1..Len(e.X) |-> [j \in 1..Len(e.X[1]) |->
                     IF i <= Len(e.misfit) /\ j <= Len(e.misfit[1])
                     THEN SeqMin([k \in 1..Len(points) |->
                              VecNorm(<<FSub(FInt(points[k][1]), e.X[i][j]),
                                        FSub(FInt(points[k][2]), e.Y[i][j]),
                                        FSub(FInt(points[k][3]), e.Z[i][j])>>, ord)])
                     ELSE 0]]]

\* The arrays a caller hands to the constructors.
CurveArrays == {<<0, 0>>, <<MaxVal, 0>>}

SurfaceArrays == {<<<<0, 0>>, <<0, 0>>>>, <<<<MaxVal, 0>>, <<0, 0>>>>}

\* The element positions of an array of the entity.
Positions(e) ==
    IF e.kind = "Curve" THEN {<<i>> : i \in 1..2} ELSE (1..2) \X (1..2)

\* The array arr with the element at position pos set to v (arr[pos] = v).
SetItem(arr, pos, v) ==
    IF Len(pos) = 1 THEN [arr EXCEPT ![pos[1]] = v]
    ELSE [arr EXCEPT ![pos[1]][pos[2]] = v]

PointSets == {<<<<0, 0, 0>>>>, <<<<0, 0, 0>>, <<MaxVal, MaxVal, MaxVal>>>>}

NoCall == [name |-> "none", attr |-> "", raised |-> "none", before |-> <<>>, val |-> <<>>]

\* The state after construction.
InitEntity ==
    /\ \/ /\ heap \in [1..3 -> CurveArrays]
          /\ ent = CurveInit(EntU, 1, 1, 2, 3)
       \/ /\ heap \in [1..3 -> SurfaceArrays]
          /\ ent = SurfaceInit(EntU, EntU, 1, 1, 1, 2, 3)
    /\ ent_call = [NoCall EXCEPT !.name = "__init__"]
    /\ PureIdle /\ SmIdle

\* The client changes one element in place through attribute a:
\* entity.a[pos] = v.
WriteElement ==
    /\ ent.writes < MaxWrites
    /\ \E a \in NormAttrs \cup RwAttrs, pos \in Positions(ent), v \in 0..MaxVal :
          /\ heap' = [heap EXCEPT ![ent[a]] = SetItem(@, pos, v)]
          /\ ent_call' = [NoCall EXCEPT !.name = "setitem", !.attr = a,
                                        !.before = heap[ent[Counterpart(a)]]]
    /\ ent' = [ent EXCEPT !.writes = @ + 1]
    /\ UNCHANGED <<pureVars, smVars>>

CurveEval ==
    /\ ent.kind = "Curve"
    /\ \E npts \in 1..MaxEvalPts, rw \in BOOLEAN :
          ent_call' = [NoCall EXCEPT !.name = "eval",
                                     !.val = curve_eval(heap, ent, npts, rw)]
    /\ UNCHANGED <<heap, ent, pureVars, smVars>>

SurfaceEval ==
    /\ ent.kind = "Surface"
    /\ \E nu \in 1..MaxEvalPts, nv \in 1..MaxEvalPts, rw \in BOOLEAN :
          ent' = surface_eval(heap, ent, nu, nv, rw)
    /\ ent_call' = [NoCall EXCEPT !.name = "eval"]
    /\ UNCHANGED <<heap, pureVars, smVars>>

SurfaceComputeDistances ==
    /\ ent.kind = "Surface"
    /\ \E points \in PointSets, ord \in 1..2 :
          LET r == compute_distances(ent, points, ord) IN
          ent_call' = [NoCall EXCEPT !.name = "compute_distances",
                                     !.raised = r.raised, !.val = r.val]
    /\ UNCHANGED <<heap, ent, pureVars, smVars>>

NextEntity == WriteElement \/ CurveEval \/ SurfaceEval \/ SurfaceComputeDistances

SpecEntity == InitEntity /\ [][NextEntity]_vars

-----------------------------------------------------------------------------
(* uvinv, bspline.py 266-333.  scipy.optimize.root is outside the          *)
(* repository: what it hands back is any pair of floats, converged or not. *)
(* A float is a rational, or n/0 for nan (0/0) and the infinities (1/0,    *)
(* -1/0).  The evaluations of the boundary curves and the swaps of lines   *)
(* 275-300 come before the solve and do not reach the clamp.               *)

MaxRoot == 4        \* finite iterates range over -MaxRoot/2 .. MaxRoot/2 in halves

\* Python's x < y on floats: false when either side is nan.
PyLt(x, y) ==
    IF x = NaN \/ y = NaN THEN FALSE
    ELSE IF ~Finite(x) \/ ~Finite(y)
         THEN (IF Finite(x) THEN 0 ELSE x.n) < (IF Finite(y) THEN 0 ELSE y.n)
         ELSE FLt(x, y)

\* clamp, 322-328
clamp(x) ==
    IF PyLt(x, FInt(0)) THEN FInt(0)
    ELSE IF PyLt(FInt(1), x) THEN FInt(1)
    ELSE x

\* The floats a coordinate of root.x can be.
RootValues ==
    {Frac(k, 2) : k \in (-MaxRoot)..MaxRoot}
      \cup {NaN, [n |-> 1, d |-> 0], [n |-> -1, d |-> 0]}

UvinvCalls == [u0 : {FInt(0), FInt(1)}, v0 : {FInt(0), FInt(1)}]

InitUvinv ==
    /\ fn = "uvinv" /\ args \in UvinvCalls
    /\ ret = Pending
    /\ SmIdle /\ EntIdle

\* root = scipy.optimize.root(f, x0, method='broyden1', tol=1e-2,
\*                            options={'maxiter': 30}), 317-319
UvinvRoot ==
    /\ fn = "uvinv" /\ ret = Pending
    /\ \E u \in RootValues, v \in RootValues, ok \in BOOLEAN :
          ret' = [st |-> "root", val |-> [root |-> <<u, v>>, success |-> ok]]
    /\ UNCHANGED <<fn, args, smVars, entVars>>

\* x = root.x; x[0] = clamp(x[0]); x[1] = clamp(x[1]); return x, 330-333
UvinvClamp ==
    /\ fn = "uvinv" /\ ret.st = "root"
    /\ ret' = Done([root |-> ret.val.root, success |-> ret.val.success,
                    x |-> <<clamp(ret.val.root[1]), clamp(ret.val.root[2])>>])
    /\ UNCHANGED <<fn, args, smVars, entVars>>

NextUvinv == UvinvRoot \/ UvinvClamp

SpecUvinv == InitUvinv /\ [][NextUvinv]_vars

-----------------------------------------------------------------------------
(* derivative_matrix, svd_inv, lsq and lsq2, bspline.py 403-496, 644-663.  *)
(* A matrix is a sequence of rows; its entries are exact rationals.        *)

MaxN == 5           \* derivative_matrix is called with n in 0..MaxN
MaxData == 2        \* at most this many data points in a fit
MaxY == 1           \* data values range over 0..MaxY

\* numpy.zeros((r, c))
Zeros(r, c) == [i \in 1..r |-> [j \in 1..c |-> FInt(0)]]

\* D[i, j] = v on an n x n matrix, with Python indices in range
MatSet(D, n, i, j, v) ==
    [D EXCEPT ![IF i >= 0 THEN i + 1 ELSE n + i + 1][IF j >= 0 THEN j + 1 ELSE n + j + 1] = FInt(v)]

\* the loop of lines 489-492, from row i on
RECURSIVE dm_rows(_, _, _)
dm_rows(D, i, n) ==
    IF i >= n - 1 THEN D
    ELSE dm_rows(MatSet(MatSet(MatSet(D, n, i, i + 1, 1), n, i, i - 0, -2), n, i, i - 1, 1),
                 i + 1, n)

\* derivative_matrix, 471-496.  For n < 2 the write D[0,1] (n = 1) or
\* D[0,0] (n = 0) is out of range.
derivative_matrix(n) ==
    IF n = 2
    THEN [raised |-> "none", val |-> <<<<FInt(-1), FInt(1)>>, <<FInt(-1), FInt(1)>>>>]
    ELSE IF n < 3 THEN [raised |-> "IndexError", val |-> <<>>]
    ELSE [raised |-> "none",
          val |-> MatSet(MatSet(MatSet(
                      dm_rows(MatSet(MatSet(MatSet(Zeros(n, n), n, 0, 0, 1), n, 0, 1, -2),
                                     n, 0, 2, 1), 1, n),
                      n, -1, 0, 1), n, -1, 1, -2), n, -1, 2, 1)]

\* Matrix algebra on rationals.  A vector or matrix is built as a tuple, so
\* that its entries are computed once.
Tup(f) == f \o <<>>

Dot(u, v) == FSum([k \in 1..Len(u) |-> FMul(u[k], v[k])], 1..Len(u))

\* A.T for a matrix of c columns
Transpose(A, c) == Tup([j \in 1..c |-> Tup([i \in 1..Len(A) |-> A[i][j]])])

\* A.dot(B), B of c columns
MatMul(A, B, c) ==
    Tup([i \in 1..Len(A) |-> Tup([j \in 1..c |->
            FSum([k \in 1..Len(B) |-> FMul(A[i][k], B[k][j])], 1..Len(B))])])

\* A.dot(v)
MatVec(A, v) == Tup([i \in 1..Len(A) |-> Dot(A[i], v)])

MatAdd(A, B) == Tup([i \in 1..Len(A) |-> Tup([j \in 1..Len(A[i]) |-> FAdd(A[i][j], B[i][j])])])

MatScale(c, A) == Tup([i \in 1..Len(A) |-> Tup([j \in 1..Len(A[i]) |-> FMul(c, A[i][j])])])

\* numpy.eye(k), numpy.diag(w)
Eye(k) == Tup([i \in 1..k |-> Tup([j \in 1..k |-> IF i = j THEN FInt(1) ELSE FInt(0)])])

Diag(w) == Tup([i \in 1..Len(w) |-> Tup([j \in 1..Len(w) |-> IF i = j THEN w[i] ELSE FInt(0)])])

\* svd_inv's default tolerance in lsq, tol = 1e-6, as 1/LsqTolInv
LsqTolInv == 1000000

\* q > tol for a rational q >= 0
AboveTol(q) == q.n > 0 /\ (q.d < LsqTolInv \/ q.n * LsqTolInv > q.d)

\* svd_inv, 403-423, for A of two columns.  M = A.T A + s I + D is symmetric
\* positive semidefinite here (s, a, w >= 0), so its singular values are its
\* eigenvalues l1 >= l2 >= 0, with l1 + l2 = tr, l1 * l2 = det.  Both exceed
\* tol when det/tr does (l2 >= det/tr): Mi is the inverse.  With det = 0 the
\* one nonzero singular value is tr and Mi = M / tr^2, or 0 when tr <= tol.
\* A nonzero singular value at or below tol does not occur on the model's
\* data.
svd_pinv(M, tr, det) ==
    CASE det.n # 0 /\ AboveTol(FDiv(det, tr)) ->
            MatScale(FDiv(FInt(1), det),
                     <<<<M[2][2], FSub(FInt(0), M[1][2])>>,
                       <<FSub(FInt(0), M[2][1]), M[1][1]>>>>)
      [] det.n = 0 /\ AboveTol(tr) -> MatScale(FDiv(FInt(1), FMul(tr, tr)), M)
      [] det.n = 0 /\ ~AboveTol(tr) -> <<<<FInt(0), FInt(0)>>, <<FInt(0), FInt(0)>>>>

svd_inv(A, b, s, D) ==
    CHOOSE x \in
        {MatVec(svd_pinv(M, FAdd(M[1][1], M[2][2]),
                         FSub(FMul(M[1][1], M[2][2]), FMul(M[1][2], M[2][1]))),
                MatVec(Transpose(A, 2), b)) :
            M \in {MatAdd(MatAdd(MatMul(Transpose(A, 2), A, 2), MatScale(FInt(s), Eye(2))), D)}} :
        TRUE

\* `np.all(w) == 0`, 450: true unless every weight is nonzero; the default
\* w = 0 is [some |-> FALSE].
WeightsDropped(w) == ~(w.some /\ \A i \in 1..Len(w.v) : w.v[i] # 0)

\* The row of A for the sample xi, 452-456.
lsq_row(xi, n, p, U) ==
    LET span == findspan(n, p, xi, U)
        N == basisfuns(span, xi, p, U)
    IN  [c \in 1..(n + 1) |->
            IF c - 1 - span + p \in 0..p THEN N[c - 1 - span + p] ELSE FInt(0)]

\* ||v||^2, the square of numpy.linalg.norm(v)
NormSq(v) == Dot(v, v)

\* lsq's end with the two overwrites left out
lsq_pin_none(A, b, y, wv, R, D, p0) ==
    [raised |-> "none", P |-> p0, p0 |-> p0,
     res2 |-> NormSq([i \in 1..Len(b) |-> FSub(Dot(A[i], p0), b[i])]),
     A |-> A, b |-> b, wv |-> wv, R |-> R, D |-> D]

\* The end of lsq, 463-468: the residual of the solution p0, then the
\* overwrite of its first and last entry.  `res2` is the square of the
\* residual norm returned; A, b, the weights used, R, D and p0 are kept
\* beside the two results.
lsq_pin(A, b, y, wv, R, D, p0) ==
    [raised |-> "none",
     P |-> [k \in 1..Len(p0) |->
              IF k = Len(p0) THEN FInt(PyAt(y, -1))
              ELSE IF k = 1 THEN FInt(PyAt(y, 0)) ELSE p0[k]],
     p0 |-> p0,
     res2 |-> NormSq([i \in 1..Len(b) |-> FSub(Dot(A[i], p0), b[i])]),
     A |-> A, b |-> b, wv |-> wv, R |-> R, D |-> D]

\* The jump regularization R = a * D.T.dot(np.diag(w)).dot(D), 459-460
lsq_reg(a, wv, D, k) == MatScale(FInt(a), MatMul(Transpose(D, k), MatMul(Diag(wv), D, k), k))

\* lsq from the regularization on, 458-468
lsq_solve(A, b, y, s, a, wv, D) ==
    CHOOSE r \in
        UNION {{lsq_pin(A, b, y, wv, R, D, p0) : p0 \in {svd_inv(A, b, s, R)}} :
               R \in {lsq_reg(a, wv, D, Len(D))}} :
        TRUE

\* The weights lsq uses, 450-451
lsq_weights(w, k) == IF WeightsDropped(w) THEN Rep(FInt(0), k) ELSE FSeq(w.v)

\* lsq, 426-468, for knot vectors with m - p = 2 control points.
lsq(x, y, U, p, s, a, w) ==
    IF Len(x) # Len(y) THEN [raised |-> "AssertionError"]
    ELSE IF Len(y) = 0 THEN [raised |-> "IndexError"]
    ELSE CHOOSE r \in
            {lsq_solve(A, FSeq(y), y, s, a, lsq_weights(w, Len(U) - 1 - p), D) :
                A \in {Tup([i \in 1..Len(x) |-> Tup(lsq_row(x[i], Len(U) - 1 - p - 1, p, U))])},
                D \in {derivative_matrix(Len(U) - 1 - p).val}} :
            TRUE

\* return Px, Py, (rx, ry), 663
lsq2_pair(fx, fy) ==
    IF fx.raised # "none" THEN [raised |-> fx.raised]
    ELSE IF fy.raised # "none" THEN [raised |-> fy.raised]
    ELSE [raised |-> "none", Px |-> fx.P, Py |-> fy.P, res2 |-> <<fx.res2, fy.res2>>]

\* lsq2, 644-663
lsq2(s, x, y, U, p, smooth) ==
    lsq2_pair(lsq(s, x, U, p, smooth, 0, [some |-> FALSE]),
              lsq(s, y, U, p, smooth, 0, [some |-> FALSE]))

\* The knot vectors with two control points: degree 1 without interior
\* knots, degree 0 with one.
LsqKnots ==
    {[U |-> <<0, 0, 2 * MaxKnot, 2 * MaxKnot>>, p |-> 1],
     [U |-> <<0, MaxKnot, 2 * MaxKnot>>, p |-> 0]}

\* Sample parameters in sample order, as a parameterization gives them:
\* non-decreasing, at the left end, inside the first half, or at the right
\* end of the knot domain.
DataParams(n) ==
    {[i \in 1..n |-> <<0, 2, 2 * MaxKnot>>[t[i]]] : t \in SortedSeqs(1, 3, n)}

DataValues(n) == [1..n -> 0..MaxY]

Weights == {[some |-> FALSE]} \cup {[some |-> TRUE, v |-> v] : v \in [1..2 -> 0..1]}

LsqCalls(maxdata) ==
    UNION {{[x |-> x, y |-> y, U |-> k.U, p |-> k.p, s |-> q[1], a |-> q[2], w |-> w] :
               x \in DataParams(n), y \in DataValues(n), k \in LsqKnots,
               q \in (0..1) \X (0..1), w \in Weights} :
           n \in 0..maxdata}

\* lsq2 on points at the corners of the unit square.
Lsq2Calls(maxdata) ==
    UNION {{[s |-> t, x |-> x, y |-> y, U |-> k.U, p |-> k.p, smooth |-> sm] :
               t \in DataParams(n), x \in [1..n -> 0..1], y \in [1..n -> 0..1],
               k \in LsqKnots, sm \in 0..1} :
           n \in 1..maxdata}

InitLsq ==
    /\ \/ fn = "lsq" /\ args \in LsqCalls(MaxData)
       \/ fn = "lsq2" /\ args \in Lsq2Calls(MaxData)
       \/ fn = "derivative_matrix" /\ args \in [n : 0..MaxN]
    /\ ret = Pending
    /\ SmIdle /\ EntIdle

CallLsq ==
    /\ fn = "lsq" /\ ret = Pending
    /\ ret' = Done(lsq(args.x, args.y, args.U, args.p, args.s, args.a, args.w))
    /\ UNCHANGED <<fn, args, smVars, entVars>>

CallLsq2 ==
    /\ fn = "lsq2" /\ ret = Pending
    /\ ret' = Done(lsq2(args.s, args.x, args.y, args.U, args.p, args.smooth))
    /\ UNCHANGED <<fn, args, smVars, entVars>>

CallDerivativeMatrix ==
    /\ fn = "derivative_matrix" /\ ret = Pending
    /\ ret' = Done(derivative_matrix(args.n))
    /\ UNCHANGED <<fn, args, smVars, entVars>>

NextLsq == CallLsq \/ CallLsq2 \/ CallDerivativeMatrix

SpecLsq == InitLsq /\ [][NextLsq]_vars

-----------------------------------------------------------------------------
(* Claims on the evaluation functions *)

\* C1 (as claimed): curvepoint at u = U[0] returns P[0] and at u = U[-1]
\* returns P[-1], for every degree p >= 1, clamped U and P with
\* len(U) = len(P) + p + 1; no other control point contributes.
C1_CurvepointEndpoints ==
    (fn = "curvepoint" /\ Returned) =>
        /\ (args.u = PyAt(args.U, 0) => ret.val = FInt(PyAt(args.P, 0)))
        /\ (args.u = PyAt(args.U, -1) => ret.val = FInt(PyAt(args.P, -1)))

\* C2: with n = len(U) - p - 2, findspan returns n at u = U[-1], and for
\* U[p] <= u < U[n+1] it returns i with p <= i <= n and U[i] <= u < U[i+1].
C2_FindspanContract ==
    (fn = "findspan" /\ Returned) =>
        LET U == args.U
            u == args.u
            i == ret.val
        IN  /\ (u = PyAt(U, -1) => i = args.n)
            /\ (PyAt(U, args.p) <= u /\ u < PyAt(U, args.n + 1) =>
                    /\ args.p <= i /\ i <= args.n
                    /\ PyAt(U, i) <= u /\ u < PyAt(U, i + 1))

\* C2's case: a parameter strictly inside the domain, located in a span that
\* is neither the first nor the last one.
C2_Witness ==
    /\ fn = "findspan" /\ Returned
    /\ PyAt(args.U, args.p) < args.u /\ args.u < PyAt(args.U, args.n + 1)
    /\ args.p >= 1 /\ args.p < ret.val /\ ret.val < args.n

\* The sum of the p+1 values basisfuns returned.
BasisSum == FSum(ret.val, 0..args.p)

\* The call is basisfuns at the span findspan(len(U) - p - 2, p, u, U).
AtFindspanSpan ==
    args.i = findspan(Len(args.U) - args.p - 2, args.p, args.u, args.U)

SpanWide == ~isclose(PyAt(args.U, args.i + 1) - PyAt(args.U, args.i), 0)

\* u is within tolerance of an end of the domain (the one-hot returns).
AtDomainEnd == isclose(args.u, PyAt(args.U, 0)) \/ isclose(args.u, PyAt(args.U, -1))

-----------------------------------------------------------------------------
(* Claims on the knot-vector builders *)

\* C7 (as claimed): uniformknots, kmeansknots and averageknots called with
\* interior-knot count m and degree p return a vector of length m + 2*(p+1),
\* which for m = 0 is p+1 copies of a followed by p+1 copies of b.
C7_InteriorKnotCount ==
    (fn \in {"uniformknots", "kmeansknots", "averageknots"} /\ Returned) =>
        /\ Len(ret.val) = args.m + 2 * (args.p + 1)
        /\ (args.m = 0 =>
               ret.val = Rep(FInt(args.a), args.p + 1) \o Rep(FInt(args.b), args.p + 1))

\* C8 (as claimed): every vector a builder returns has its first p+1 entries
\* equal to a, its last p+1 entries equal to b, and is non-decreasing.
C8_ClampedNonDecreasing ==
    (fn \in {"uniformknots", "customknots", "kmeansknots", "averageknots"} /\ Returned) =>
        LET U == ret.val IN
        /\ Len(U) >= 2 * (args.p + 1)
        /\ \A i \in 1..(args.p + 1) : U[i] = FInt(args.a)
        /\ \A i \in (Len(U) - args.p)..Len(U) : U[i] = FInt(args.b)
        /\ \A i \in 1..(Len(U) - 1) : FLeq(U[i], U[i + 1])

-----------------------------------------------------------------------------
(* Claims on degenerate input *)

\* The points of the call all coincide (chords, centripetal), the values are
\* all equal (xmap), the span is of zero width (basisfuns), or the u
\* direction has exactly two control points (lsq2surf).
DegenerateInput ==
    CASE fn = "chords" ->
            /\ Len(args.x) >= 2
            /\ \A i \in 1..Len(args.x) :
                  /\ args.x[i] = args.x[1] /\ args.y[i] = args.y[1]
                  /\ args.z.some => args.z.v[i] = args.z.v[1]
      [] fn = "centripetal" ->
            /\ Len(args.x) >= 2
            /\ \A i \in 1..Len(args.x) : args.x[i] = args.x[1] /\ args.y[i] = args.y[1]
      [] fn = "xmap" -> \A i \in 1..Len(args.x) : args.x[i] = args.x[1]
      [] fn = "basisfuns" -> PyAt(args.U, args.i) = PyAt(args.U, args.i + 1)
      [] fn = "lsq2surf" -> Len(args.U) - args.pu - 1 = 2
      [] OTHER -> FALSE

\* C9 (as claimed): on degenerate input no operation divides by zero (none
\* raises, none returns a non-finite value), and xmap returns a for every
\* sample.
C9_NoZeroDivision ==
    (Returned /\ DegenerateInput) =>
        /\ ~ret.val.zerodiv
        /\ ret.val.raised = "none"
        /\ fn = "xmap" => \A k \in 1..Len(args.x) : ret.val.val[k] = FInt(args.a)

-----------------------------------------------------------------------------
(* Claims on smoothing *)

\* C4: the fits use interior-knot counts 2, 4, 6, .. in this order; no fit
\* follows a fit whose residual norm is <= sm; no fit uses more than mmax
\* interior knots; and when smoothing returns, the last fit's residual norm
\* is <= sm or the counter has reached mmax.
C4_RefinementLoop ==
    /\ \A k \in 1..Len(sm_fits) : sm_fits[k].m = 2 * k /\ sm_fits[k].m <= sm_in.mmax
    /\ \A k \in 1..(Len(sm_fits) - 1) : sm_fits[k].res > sm_in.sm
    /\ sm_pc = "returned" =>
          /\ Len(sm_fits) >= 1
          /\ sm_fits[Len(sm_fits)].res <= sm_in.sm \/ sm_m >= sm_in.mmax

\* C4's case: smoothing returned after at least two fits because the last
\* one met the target, before the counter reached mmax.
C4_Witness ==
    /\ sm_pc = "returned"
    /\ Len(sm_fits) >= 2
    /\ sm_fits[Len(sm_fits)].res <= sm_in.sm
    /\ sm_m < sm_in.mmax

\* C5 (as claimed): for every sm and mmax smoothing performs at least one
\* and at most ceil((mmax - 2) / 2) fits and returns the Px, Py, U of the
\* last fit; it never ends in an error.
C5_SmoothingTerminates ==
    /\ sm_pc # "raised"
    /\ sm_pc = "returned" =>
          /\ Len(sm_fits) >= 1
          /\ 2 * Len(sm_fits) <= sm_in.mmax - 1
          /\ sm_out.kind = "return"
          /\ sm_out.fit = Len(sm_fits)
          /\ sm_out.U = uniformknots(sm_fits[Len(sm_fits)].m, sm_in.p, 0, 1)

-----------------------------------------------------------------------------
(* Claims on the Curve and Surface entities *)

\* C6 (as claimed): compute_distances fails with the state error exactly
\* when eval() has never been called on the Surface; once eval() has been
\* called it returns, without error, a grid of the shape of X.
C6_ComputeDistancesAfterEval ==
    ent_call.name = "compute_distances" =>
        /\ ent_call.raised = "ValueError" <=> "X" \notin ent.attrs
        /\ "X" \in ent.attrs =>
              /\ ent_call.raised = "none"
              /\ Len(ent_call.val) = Len(ent.X)
              /\ \A i \in 1..Len(ent.X) : Len(ent_call.val[i]) = Len(ent.X[i])

\* C10 (as claimed): an in-place change to an element of an array of one
\* representation leaves what the other representation of that axis holds
\* as it was before the change.
C10_RepresentationsIndependent ==
    ent_call.name = "setitem" => heap[ent[Counterpart(ent_call.attr)]] = ent_call.before

-----------------------------------------------------------------------------
(* Claims on the parameterizations *)

\* The call is of chords or centripetal on n >= 2 points that are not all
\* coincident.
OrderedPoints ==
    /\ fn \in {"chords", "centripetal"}
    /\ Len(args.x) >= 2
    /\ ~DegenerateInput

\* C12 (as claimed): for a < b and n >= 2 points that are not all coincident,
\* chords and centripetal return exactly n values, non-decreasing in sample
\* order, the first equal to a and the last equal to b.
C12_ParameterizationMonotone ==
    (Returned /\ OrderedPoints) =>
        LET s == ret.val.val
            n == Len(args.x)
        IN  /\ ret.val.raised = "none"
            /\ Len(s) = n
            /\ \A k \in 1..n : Finite(s[k])
            /\ \A k \in 1..(n - 1) : FLeq(s[k], s[k + 1])
            /\ s[1] = FInt(args.a)
            /\ s[n] = FInt(args.b)

-----------------------------------------------------------------------------
(* Claims on uvinv *)

\* The projection of a float onto [0, 1].
InUnit(x) == Finite(x) /\ FLeq(FInt(0), x) /\ FLeq(x, FInt(1))

Projected(x, r) ==
    /\ InUnit(r)
    /\ (Finite(x) /\ FLt(x, FInt(0))) \/ x = [n |-> -1, d |-> 0] => r = FInt(0)
    /\ (Finite(x) /\ FLt(FInt(1), x)) \/ x = [n |-> 1, d |-> 0] => r = FInt(1)
    /\ InUnit(x) => r = x

\* C11 (as claimed): for every iterate the root finder hands back, converged
\* or not, uvinv returns a pair (u, v) with 0 <= u <= 1 and 0 <= v <= 1, each
\* coordinate being the iterate's coordinate projected onto [0, 1].
C11_ClampedToUnitSquare ==
    (fn = "uvinv" /\ Returned) =>
        \A c \in 1..2 : Projected(ret.val.root[c], ret.val.x[c])

-----------------------------------------------------------------------------
(* Claims on the least-squares fit *)

LsqReturned == fn = "lsq" /\ Returned /\ ret.val.raised = "none"

\* C13: the control points lsq returns have P[0] = y[0] and P[-1] = y[-1];
\* those lsq2 returns have Px[0] = x[0], Px[-1] = x[-1], Py[0] = y[0],
\* Py[-1] = y[-1].  Every call on data of equal, nonzero length returns.
C13_EndsPinned ==
    /\ (fn = "lsq" /\ Returned) =>
          /\ ret.val.raised = "none" <=> Len(args.y) >= 1
          /\ ret.val.raised = "none" =>
                /\ PyAt(ret.val.P, 0) = FInt(PyAt(args.y, 0))
                /\ PyAt(ret.val.P, -1) = FInt(PyAt(args.y, -1))
    /\ (fn = "lsq2" /\ Returned) =>
          /\ ret.val.raised = "none"
          /\ PyAt(ret.val.Px, 0) = FInt(PyAt(args.x, 0))
          /\ PyAt(ret.val.Px, -1) = FInt(PyAt(args.x, -1))
          /\ PyAt(ret.val.Py, 0) = FInt(PyAt(args.y, 0))
          /\ PyAt(ret.val.Py, -1) = FInt(PyAt(args.y, -1))

\* A fit with smoothing, penalty and weights whose solution had neither end
\* on the data before the overwrite.
C13_Witness ==
    /\ LsqReturned
    /\ args.s > 0 /\ args.a > 0 /\ args.w.some
    /\ \A i \in 1..Len(args.w.v) : args.w.v[i] # 0
    /\ PyAt(args.y, 0) # PyAt(args.y, -1)
    /\ PyAt(ret.val.p0, 0) # FInt(PyAt(args.y, 0))
    /\ PyAt(ret.val.p0, -1) # FInt(PyAt(args.y, -1))

\* C14 (as claimed): when the caller supplies weights, one per control point,
\* lsq uses exactly those weights, R = a * D^T diag(w) D; all-zero weights
\* are used in their place only when none are supplied or all are zero.
C14_WeightsAsSupplied ==
    LsqReturned =>
        /\ args.w.some =>
              /\ ret.val.wv = FSeq(args.w.v)
              /\ ret.val.R = lsq_reg(args.a, FSeq(args.w.v), ret.val.D, 2)
        /\ ~args.w.some => ret.val.wv = <<FInt(0), FInt(0)>>

\* The first column of the stencil the claim places on row r of n rows
\* (0-based): centred on the diagonal, moved inside at the first and last row.
StencilStart(r, n) == IF r = 0 THEN 0 ELSE IF r = n - 1 THEN n - 3 ELSE r - 1

\* C15 (as claimed): for n >= 3, row r of derivative_matrix(n) holds 1, -2, 1
\* on the three consecutive columns nearest its diagonal entry and zeros
\* elsewhere; for n = 2 the matrix is the simplified 2 x 2 form.
C15_BandedStencil ==
    (fn = "derivative_matrix" /\ Returned /\ args.n >= 2) =>
        /\ ret.val.raised = "none"
        /\ Len(ret.val.val) = args.n
        /\ args.n = 2 => ret.val.val = <<<<FInt(-1), FInt(1)>>, <<FInt(-1), FInt(1)>>>>
        /\ args.n >= 3 =>
              \A r \in 0..(args.n - 1) :
                  /\ Len(PyAt(ret.val.val, r)) = args.n
                  /\ \A c \in 0..(args.n - 1) :
                        PyAt(PyAt(ret.val.val, r), c) =
                            LET k == c - StencilStart(r, args.n)
                            IN  IF k = 0 \/ k = 2 THEN FInt(1)
                                ELSE IF k = 1 THEN FInt(-2) ELSE FInt(0)

\* C16 (as claimed): the residual lsq returns is the norm of A*P - b for the
\* control points P it returns.
C16_ResidualOfReturned ==
    LsqReturned =>
        ret.val.res2 =
            NormSq([i \in 1..Len(ret.val.b) |->
                      FSub(Dot(ret.val.A[i], ret.val.P), ret.val.b[i])])

=============================================================================
